---- MODULE Spec2Model ----
(***************************************************************************)
(* KRDS (krds.py): decoder of the Kindle reader data store format.         *)
(*                                                                         *)
(* Python values are tagged tuples: <<"none">>, <<"bool", b>>,             *)
(* <<"int", n>>, <<"float", raw big-endian bytes>>, <<"str", code          *)
(* points>>, <<"bytes", bytes>>, <<"list", items>>, <<"dict", ordered      *)
(* <<key, value>> pairs>> and <<"isostr", seconds, microseconds>> (the     *)
(* str that datetime.isoformat() returns for that instant).  A raised      *)
(* exception is the non-empty field exc of an operation's result.          *)
(***************************************************************************)
EXTENDS Integers, Sequences, FiniteSets, TLC

VARIABLES
  buffer,     \* Deserializer.buffer (= KindleReaderDataStore.data)
  offset,     \* Deserializer.offset
  pc,         \* position inside deserialize / of the call under study
  value_cnt,  \* deserialize: the decoded count
  i,          \* deserialize: passes of the loop over range(value_cnt) done
  value,      \* deserialize: the OrderedDict being built, as ordered pairs
  log,        \* events sent to self.log, in order
  result,     \* what the finished call returned or raised
  call        \* the arguments of the call under study

vars == <<buffer, offset, pc, value_cnt, i, value, log, result, call>>

-----------------------------------------------------------------------------
(* Python values *)

PyNone == <<"none">>
PyBool(b) == <<"bool", b>>
PyInt(n) == <<"int", n>>
PyFloat(bs) == <<"float", bs>>
PyStr(cs) == <<"str", cs>>
PyBytes(bs) == <<"bytes", bs>>
PyList(xs) == <<"list", xs>>
PyDict(items) == <<"dict", items>>
IsoStr(sec, us) == <<"isostr", sec, us>>

Kind(v) == v[1]

\* bool is a subclass of int: True is 1 and False is 0 wherever a number is used
IsIntLike(v) == Kind(v) \in {"int", "bool"}

NumOf(v) == IF Kind(v) = "bool" THEN (IF v[2] THEN 1 ELSE 0) ELSE v[2]

\* struct.pack(">d", n) and struct.pack(">f", n) of the small integers below
FloatBytesOf(n) ==
  CASE n = 1 -> {<<63, 240, 0, 0, 0, 0, 0, 0>>, <<63, 128, 0, 0>>}
    [] n = -1 -> {<<191, 240, 0, 0, 0, 0, 0, 0>>, <<191, 128, 0, 0>>}

\* Python's v == n for the integer n (1 or -1): by value across bool, int, float
PyEqInt(v, n) ==
  \/ IsIntLike(v) /\ NumOf(v) = n
  \/ Kind(v) = "float" /\ v[2] \in FloatBytesOf(n)

\* The string literals of decode_object and ANNOT_CLASS_NAMES, as code points
S ==
  [
    annotation_personal_bookmark |-> <<97, 110, 110, 111, 116, 97, 116, 105, 111, 110, 46, 112, 101, 114, 115, 111, 110, 97, 108, 46, 98, 111, 111, 107, 109, 97, 114, 107>>,
    annotation_personal_highlight |-> <<97, 110, 110, 111, 116, 97, 116, 105, 111, 110, 46, 112, 101, 114, 115, 111, 110, 97, 108, 46, 104, 105, 103, 104, 108, 105, 103, 104, 116>>,
    annotation_personal_note |-> <<97, 110, 110, 111, 116, 97, 116, 105, 111, 110, 46, 112, 101, 114, 115, 111, 110, 97, 108, 46, 110, 111, 116, 101>>,
    annotation_personal_clip_article |-> <<97, 110, 110, 111, 116, 97, 116, 105, 111, 110, 46, 112, 101, 114, 115, 111, 110, 97, 108, 46, 99, 108, 105, 112, 95, 97, 114, 116, 105, 99, 108, 101>>,
    annotation_personal_handwritten_note |-> <<97, 110, 110, 111, 116, 97, 116, 105, 111, 110, 46, 112, 101, 114, 115, 111, 110, 97, 108, 46, 104, 97, 110, 100, 119, 114, 105, 116, 116, 101, 110, 95, 110, 111, 116, 101>>,
    annotation_personal_sticky_note |-> <<97, 110, 110, 111, 116, 97, 116, 105, 111, 110, 46, 112, 101, 114, 115, 111, 110, 97, 108, 46, 115, 116, 105, 99, 107, 121, 95, 110, 111, 116, 101>>,
    clock_data_store |-> <<99, 108, 111, 99, 107, 46, 100, 97, 116, 97, 46, 115, 116, 111, 114, 101>>,
    dictionary |-> <<100, 105, 99, 116, 105, 111, 110, 97, 114, 121>>,
    lpu |-> <<108, 112, 117>>,
    pdf_contrast |-> <<112, 100, 102, 46, 99, 111, 110, 116, 114, 97, 115, 116>>,
    sync_lpr |-> <<115, 121, 110, 99, 95, 108, 112, 114>>,
    tpz_line_spacing |-> <<116, 112, 122, 46, 108, 105, 110, 101, 46, 115, 112, 97, 99, 105, 110, 103>>,
    XRAY_OTA_UPDATE_STATE |-> <<88, 82, 65, 89, 95, 79, 84, 65, 95, 85, 80, 68, 65, 84, 69, 95, 83, 84, 65, 84, 69>>,
    XRAY_SHOWING_SPOILERS |-> <<88, 82, 65, 89, 95, 83, 72, 79, 87, 73, 78, 71, 95, 83, 80, 79, 73, 76, 69, 82, 83>>,
    XRAY_SORTING_STATE |-> <<88, 82, 65, 89, 95, 83, 79, 82, 84, 73, 78, 71, 95, 83, 84, 65, 84, 69>>,
    XRAY_TAB_STATE |-> <<88, 82, 65, 89, 95, 84, 65, 66, 95, 83, 84, 65, 84, 69>>,
    dict_prefs_v2 |-> <<100, 105, 99, 116, 46, 112, 114, 101, 102, 115, 46, 118, 50>>,
    EndActions |-> <<69, 110, 100, 65, 99, 116, 105, 111, 110, 115>>,
    ReaderMetrics |-> <<82, 101, 97, 100, 101, 114, 77, 101, 116, 114, 105, 99, 115>>,
    StartActions |-> <<83, 116, 97, 114, 116, 65, 99, 116, 105, 111, 110, 115>>,
    Translator |-> <<84, 114, 97, 110, 115, 108, 97, 116, 111, 114>>,
    Wikipedia |-> <<87, 105, 107, 105, 112, 101, 100, 105, 97>>,
    buy_asin_response_data |-> <<98, 117, 121, 46, 97, 115, 105, 110, 46, 114, 101, 115, 112, 111, 110, 115, 101, 46, 100, 97, 116, 97>>,
    next_in_series_info_data |-> <<110, 101, 120, 116, 46, 105, 110, 46, 115, 101, 114, 105, 101, 115, 46, 105, 110, 102, 111, 46, 100, 97, 116, 97>>,
    price_info_data |-> <<112, 114, 105, 99, 101, 46, 105, 110, 102, 111, 46, 100, 97, 116, 97>>,
    erl |-> <<101, 114, 108>>,
    lpr |-> <<108, 112, 114>>,
    position |-> <<112, 111, 115, 105, 116, 105, 111, 110>>,
    time |-> <<116, 105, 109, 101>>,
    fpr |-> <<102, 112, 114>>,
    updated_lpr |-> <<117, 112, 100, 97, 116, 101, 100, 95, 108, 112, 114>>,
    timeZoneOffset |-> <<116, 105, 109, 101, 90, 111, 110, 101, 79, 102, 102, 115, 101, 116>>,
    country |-> <<99, 111, 117, 110, 116, 114, 121>>,
    device |-> <<100, 101, 118, 105, 99, 101>>,
    annotation_cache_object |-> <<97, 110, 110, 111, 116, 97, 116, 105, 111, 110, 46, 99, 97, 99, 104, 101, 46, 111, 98, 106, 101, 99, 116>>,
    saved_avl_interval_tree |-> <<115, 97, 118, 101, 100, 46, 97, 118, 108, 46, 105, 110, 116, 101, 114, 118, 97, 108, 46, 116, 114, 101, 101>>,
    startPosition |-> <<115, 116, 97, 114, 116, 80, 111, 115, 105, 116, 105, 111, 110>>,
    endPosition |-> <<101, 110, 100, 80, 111, 115, 105, 116, 105, 111, 110>>,
    creationTime |-> <<99, 114, 101, 97, 116, 105, 111, 110, 84, 105, 109, 101>>,
    lastModificationTime |-> <<108, 97, 115, 116, 77, 111, 100, 105, 102, 105, 99, 97, 116, 105, 111, 110, 84, 105, 109, 101>>,
    template |-> <<116, 101, 109, 112, 108, 97, 116, 101>>,
    note |-> <<110, 111, 116, 101>>,
    handwritten_note_nbk_ref |-> <<104, 97, 110, 100, 119, 114, 105, 116, 116, 101, 110, 95, 110, 111, 116, 101, 95, 110, 98, 107, 95, 114, 101, 102>>,
    sticky_note_nbk_ref |-> <<115, 116, 105, 99, 107, 121, 95, 110, 111, 116, 101, 95, 110, 98, 107, 95, 114, 101, 102>>,
    apnx_key |-> <<97, 112, 110, 120, 46, 107, 101, 121>>,
    asin |-> <<97, 115, 105, 110>>,
    cdeType |-> <<99, 100, 101, 84, 121, 112, 101>>,
    sidecarAvailable |-> <<115, 105, 100, 101, 99, 97, 114, 65, 118, 97, 105, 108, 97, 98, 108, 101>>,
    oPNToPosition |-> <<111, 80, 78, 84, 111, 80, 111, 115, 105, 116, 105, 111, 110>>,
    first |-> <<102, 105, 114, 115, 116>>,
    unknown1 |-> <<117, 110, 107, 110, 111, 119, 110, 49>>,
    unknown2 |-> <<117, 110, 107, 110, 111, 119, 110, 50>>,
    pageMap |-> <<112, 97, 103, 101, 77, 97, 112>>,
    fixed_layout_data |-> <<102, 105, 120, 101, 100, 46, 108, 97, 121, 111, 117, 116, 46, 100, 97, 116, 97>>,
    unknown3 |-> <<117, 110, 107, 110, 111, 119, 110, 51>>,
    sharing_limits |-> <<115, 104, 97, 114, 105, 110, 103, 46, 108, 105, 109, 105, 116, 115>>,
    accumulated |-> <<97, 99, 99, 117, 109, 117, 108, 97, 116, 101, 100>>,
    language_store |-> <<108, 97, 110, 103, 117, 97, 103, 101, 46, 115, 116, 111, 114, 101>>,
    language |-> <<108, 97, 110, 103, 117, 97, 103, 101>>,
    periodicals_view_state |-> <<112, 101, 114, 105, 111, 100, 105, 99, 97, 108, 115, 46, 118, 105, 101, 119, 46, 115, 116, 97, 116, 101>>,
    font_prefs |-> <<102, 111, 110, 116, 46, 112, 114, 101, 102, 115>>,
    typeface |-> <<116, 121, 112, 101, 102, 97, 99, 101>>,
    lineSp |-> <<108, 105, 110, 101, 83, 112>>,
    size |-> <<115, 105, 122, 101>>,
    align |-> <<97, 108, 105, 103, 110>>,
    insetTop |-> <<105, 110, 115, 101, 116, 84, 111, 112>>,
    insetLeft |-> <<105, 110, 115, 101, 116, 76, 101, 102, 116>>,
    insetBottom |-> <<105, 110, 115, 101, 116, 66, 111, 116, 116, 111, 109>>,
    insetRight |-> <<105, 110, 115, 101, 116, 82, 105, 103, 104, 116>>,
    bold |-> <<98, 111, 108, 100>>,
    userSideloadableFont |-> <<117, 115, 101, 114, 83, 105, 100, 101, 108, 111, 97, 100, 97, 98, 108, 101, 70, 111, 110, 116>>,
    customFontIndex |-> <<99, 117, 115, 116, 111, 109, 70, 111, 110, 116, 73, 110, 100, 101, 120>>,
    mobi7SystemFont |-> <<109, 111, 98, 105, 55, 83, 121, 115, 116, 101, 109, 70, 111, 110, 116>>,
    mobi7RestoreFont |-> <<109, 111, 98, 105, 55, 82, 101, 115, 116, 111, 114, 101, 70, 111, 110, 116>>,
    readingPresetSelected |-> <<114, 101, 97, 100, 105, 110, 103, 80, 114, 101, 115, 101, 116, 83, 101, 108, 101, 99, 116, 101, 100>>,
    purchase_state_data |-> <<112, 117, 114, 99, 104, 97, 115, 101, 46, 115, 116, 97, 116, 101, 46, 100, 97, 116, 97>>,
    state |-> <<115, 116, 97, 116, 101>>,
    timer_data_store |-> <<116, 105, 109, 101, 114, 46, 100, 97, 116, 97, 46, 115, 116, 111, 114, 101>>,
    on |-> <<111, 110>>,
    readingTimerModel |-> <<114, 101, 97, 100, 105, 110, 103, 84, 105, 109, 101, 114, 77, 111, 100, 101, 108>>,
    version |-> <<118, 101, 114, 115, 105, 111, 110>>,
    timer_data_store_v2 |-> <<116, 105, 109, 101, 114, 46, 100, 97, 116, 97, 46, 115, 116, 111, 114, 101, 46, 118, 50>>,
    lastOption |-> <<108, 97, 115, 116, 79, 112, 116, 105, 111, 110>>,
    timer_model |-> <<116, 105, 109, 101, 114, 46, 109, 111, 100, 101, 108>>,
    totalTime |-> <<116, 111, 116, 97, 108, 84, 105, 109, 101>>,
    totalWords |-> <<116, 111, 116, 97, 108, 87, 111, 114, 100, 115>>,
    totalPercent |-> <<116, 111, 116, 97, 108, 80, 101, 114, 99, 101, 110, 116>>,
    averageCalculator |-> <<97, 118, 101, 114, 97, 103, 101, 67, 97, 108, 99, 117, 108, 97, 116, 111, 114>>,
    timer_average_calculator |-> <<116, 105, 109, 101, 114, 46, 97, 118, 101, 114, 97, 103, 101, 46, 99, 97, 108, 99, 117, 108, 97, 116, 111, 114>>,
    samples1 |-> <<115, 97, 109, 112, 108, 101, 115, 49>>,
    samples2 |-> <<115, 97, 109, 112, 108, 101, 115, 50>>,
    normalDistributions |-> <<110, 111, 114, 109, 97, 108, 68, 105, 115, 116, 114, 105, 98, 117, 116, 105, 111, 110, 115>>,
    timer_average_calculator_distribution_normal |-> <<116, 105, 109, 101, 114, 46, 97, 118, 101, 114, 97, 103, 101, 46, 99, 97, 108, 99, 117, 108, 97, 116, 111, 114, 46, 100, 105, 115, 116, 114, 105, 98, 117, 116, 105, 111, 110, 46, 110, 111, 114, 109, 97, 108>>,
    outliers |-> <<111, 117, 116, 108, 105, 101, 114, 115>>,
    timer_average_calculator_outliers |-> <<116, 105, 109, 101, 114, 46, 97, 118, 101, 114, 97, 103, 101, 46, 99, 97, 108, 99, 117, 108, 97, 116, 111, 114, 46, 111, 117, 116, 108, 105, 101, 114, 115>>,
    count |-> <<99, 111, 117, 110, 116>>,
    sum |-> <<115, 117, 109>>,
    sumOfSquares |-> <<115, 117, 109, 79, 102, 83, 113, 117, 97, 114, 101, 115>>,
    book_info_store |-> <<98, 111, 111, 107, 46, 105, 110, 102, 111, 46, 115, 116, 111, 114, 101>>,
    numberOfWords |-> <<110, 117, 109, 98, 101, 114, 79, 102, 87, 111, 114, 100, 115>>,
    percentOfBook |-> <<112, 101, 114, 99, 101, 110, 116, 79, 102, 66, 111, 111, 107>>,
    page_history_store |-> <<112, 97, 103, 101, 46, 104, 105, 115, 116, 111, 114, 121, 46, 115, 116, 111, 114, 101>>,
    page_history_record |-> <<112, 97, 103, 101, 46, 104, 105, 115, 116, 111, 114, 121, 46, 114, 101, 99, 111, 114, 100>>,
    reader_state_preferences |-> <<114, 101, 97, 100, 101, 114, 46, 115, 116, 97, 116, 101, 46, 112, 114, 101, 102, 101, 114, 101, 110, 99, 101, 115>>,
    fontPreferences |-> <<102, 111, 110, 116, 80, 114, 101, 102, 101, 114, 101, 110, 99, 101, 115>>,
    leftMargin |-> <<108, 101, 102, 116, 77, 97, 114, 103, 105, 110>>,
    rightMargin |-> <<114, 105, 103, 104, 116, 77, 97, 114, 103, 105, 110>>,
    topMargin |-> <<116, 111, 112, 77, 97, 114, 103, 105, 110>>,
    bottomMargin |-> <<98, 111, 116, 116, 111, 109, 77, 97, 114, 103, 105, 110>>
  ]

-----------------------------------------------------------------------------
(* class Deserializer *)

CalcSize(fmt) ==
  CASE fmt \in {"b", "c"} -> 1
    [] fmt \in {">h", ">H"} -> 2
    [] fmt \in {">l", ">f"} -> 4
    [] fmt \in {">q", ">d"} -> 8

RECURSIVE BigEndian(_, _)
BigEndian(acc, bs) ==
  IF Len(bs) = 0 THEN acc ELSE BigEndian(acc * 256 + Head(bs), Tail(bs))

Unsigned(bs) == BigEndian(0, bs)

\* two's complement: the first byte carries the sign
Signed(bs) == BigEndian(IF Head(bs) >= 128 THEN Head(bs) - 256 ELSE Head(bs), Tail(bs))

\* buffer[lo:hi] for lo >= 0; a negative hi counts from the end
PySlice(buf, lo, hi) ==
  LET h0 == IF hi < 0 THEN (IF Len(buf) + hi < 0 THEN 0 ELSE Len(buf) + hi) ELSE hi
      h == IF h0 > Len(buf) THEN Len(buf) ELSE h0
  IN  IF h <= lo THEN <<>> ELSE SubSeq(buf, lo + 1, h)

UnpackValue(fmt, bs) ==
  CASE fmt \in {"b", ">h", ">l", ">q"} -> PyInt(Signed(bs))
    [] fmt = ">H" -> PyInt(Unsigned(bs))
    [] fmt \in {">f", ">d"} -> PyFloat(bs)
    [] fmt = "c" -> PyBytes(bs)

\* unpack with `if advance:` lost: a peek moves the cursor
UnpackAlwaysAdvances(buf, off, fmt, advance) ==
  IF Len(buf) - off < CalcSize(fmt)
  THEN [exc |-> "struct.error", result |-> PyNone, offset |-> off]
  ELSE [exc |-> "",
        result |-> UnpackValue(fmt, SubSeq(buf, off + 1, off + CalcSize(fmt))),
        offset |-> off + CalcSize(fmt)]

\* Deserializer.unpack: struct.unpack_from raises when the bytes are not there
Unpack(buf, off, fmt, advance) ==
  IF Len(buf) - off < CalcSize(fmt)
  THEN [exc |-> "struct.error", result |-> PyNone, offset |-> off]
  ELSE [exc |-> "",
        result |-> UnpackValue(fmt, SubSeq(buf, off + 1, off + CalcSize(fmt))),
        offset |-> IF advance THEN off + CalcSize(fmt) ELSE off]

\* Deserializer.__len__
RemainingLen(buf, off) == Len(buf) - off

\* Deserializer.extract; size and upto are PyNone or PyInt(n)
Extract(buf, off, size, upto, advance) ==
  LET n == IF size = PyNone
           THEN (IF upto = PyNone THEN RemainingLen(buf, off) ELSE upto[2] - off)
           ELSE size[2]
      data == PySlice(buf, off, off + n)
  IN  IF Len(data) < n \/ n < 0
      THEN [exc |-> "Deserializer: Insufficient data", result |-> PyNone, offset |-> off]
      ELSE [exc |-> "", result |-> PyBytes(data),
            offset |-> IF advance THEN off + n ELSE off]

-----------------------------------------------------------------------------
(* bytes.decode("utf-8"): strict UTF-8, one code point per well-formed sequence *)

IsCont(b) == b >= 128 /\ b <= 191

\* number of bytes of the well-formed sequence at the head of bs, 0 if there is none
Utf8Width(bs) ==
  LET b0 == bs[1]
      n == Len(bs)
  IN  IF b0 < 128 THEN 1
      ELSE IF b0 >= 194 /\ b0 <= 223
        THEN (IF n >= 2 /\ IsCont(bs[2]) THEN 2 ELSE 0)
      ELSE IF b0 >= 224 /\ b0 <= 239
        THEN (IF /\ n >= 3
                 /\ IsCont(bs[2])
                 /\ IsCont(bs[3])
                 /\ (b0 = 224 => bs[2] >= 160)
                 /\ (b0 = 237 => bs[2] <= 159)
              THEN 3 ELSE 0)
      ELSE IF b0 >= 240 /\ b0 <= 244
        THEN (IF /\ n >= 4
                 /\ IsCont(bs[2])
                 /\ IsCont(bs[3])
                 /\ IsCont(bs[4])
                 /\ (b0 = 240 => bs[2] >= 144)
                 /\ (b0 = 244 => bs[2] <= 143)
              THEN 4 ELSE 0)
      ELSE 0

Utf8CodePoint(bs, w) ==
  CASE w = 1 -> bs[1]
    [] w = 2 -> (bs[1] - 192) * 64 + (bs[2] - 128)
    [] w = 3 -> (bs[1] - 224) * 4096 + (bs[2] - 128) * 64 + (bs[3] - 128)
    [] w = 4 -> (bs[1] - 240) * 262144 + (bs[2] - 128) * 4096
                  + (bs[3] - 128) * 64 + (bs[4] - 128)

RECURSIVE Utf8Decode(_, _)
Utf8Decode(bs, acc) ==
  IF Len(bs) = 0 THEN [exc |-> "", result |-> PyStr(acc)]
  ELSE LET w == Utf8Width(bs)
       IN  IF w = 0 THEN [exc |-> "UnicodeDecodeError", result |-> PyNone]
           ELSE Utf8Decode(SubSeq(bs, w + 1, Len(bs)), Append(acc, Utf8CodePoint(bs, w)))

-----------------------------------------------------------------------------
(* Python operations that decode_object applies to the children *)

\* a value outside the modelled domain was used as a number
Unmodelled == "unmodelled: arithmetic on a float"

\* list.pop(0)
Pop(val) ==
  IF Len(val) = 0
  THEN [exc |-> "IndexError: pop from empty list", item |-> PyNone, val |-> val]
  ELSE [exc |-> "", item |-> Head(val), val |-> Tail(val)]

\* len(range(v)): the number of iterations of `for _ in range(v)`
RangeLen(v) ==
  IF IsIntLike(v)
  THEN [exc |-> "", n |-> IF NumOf(v) > 0 THEN NumOf(v) ELSE 0]
  ELSE [exc |-> "TypeError", n |-> 0]

IsHashable(v) == Kind(v) \notin {"dict", "list"}

\* equality of two hashable keys: numbers by value, the rest structurally
KeyEq(a, b) ==
  IF IsIntLike(a) /\ IsIntLike(b) THEN NumOf(a) = NumOf(b) ELSE a = b

HasKey(items, k) == \E j \in 1..Len(items) : KeyEq(items[j][1], k)

DictGet(items, k) == items[CHOOSE j \in 1..Len(items) : KeyEq(items[j][1], k)][2]

\* OrderedDict.__setitem__: an existing key keeps its place and takes the new value
DictSet(items, k, v) ==
  IF HasKey(items, k)
  THEN [j \in 1..Len(items) |-> IF KeyEq(items[j][1], k) THEN <<items[j][1], v>> ELSE items[j]]
  ELSE Append(items, <<k, v>>)

\* v[key] for a str key
Subscript(v, key) ==
  IF Kind(v) # "dict" THEN [exc |-> "TypeError", result |-> PyNone]
  ELSE IF ~HasKey(v[2], key) THEN [exc |-> "KeyError", result |-> PyNone]
  ELSE [exc |-> "", result |-> DictGet(v[2], key)]

\* KindleReaderDataStore.decode_position
DecodePosition(position) == position

\* datetime.datetime.fromtimestamp(v / 1000.0).isoformat(): floor seconds and the
\* microseconds of the remaining milliseconds
FromTimestampIso(v) ==
  IF IsIntLike(v)
  THEN [exc |-> "", result |-> IsoStr(NumOf(v) \div 1000, (NumOf(v) % 1000) * 1000)]
  ELSE IF Kind(v) = "float" THEN [exc |-> Unmodelled, result |-> PyNone]
  ELSE [exc |-> "TypeError", result |-> PyNone]

\* the conversion with the -1 test lost
TimeOrNoneUnsentineled(time) == FromTimestampIso(time)

\* ... if time != -1 else None
TimeOrNone(time) ==
  IF PyEqInt(time, -1) THEN [exc |-> "", result |-> PyNone] ELSE FromTimestampIso(time)

\* timezone if timezone != -1 else None
TimezoneOrNone(timezone) == IF PyEqInt(timezone, -1) THEN PyNone ELSE timezone

\* [val.pop(0) for _ in range(n)], with [sub] applied to each item unless sub is None
RECURSIVE PopItems(_, _, _, _)
PopItems(n, sub, val, acc) ==
  LET item(p) == IF sub = PyNone THEN [exc |-> "", result |-> p.item]
                 ELSE Subscript(p.item, sub)
      next(p, s) ==
        IF p.exc # "" THEN [exc |-> p.exc, result |-> PyNone, val |-> val]
        ELSE IF s.exc # "" THEN [exc |-> s.exc, result |-> PyNone, val |-> p.val]
        ELSE PopItems(n - 1, sub, p.val, Append(acc, s.result))
      popped(p) == next(p, item(p))
  IN  IF n = 0 THEN [exc |-> "", result |-> PyList(acc), val |-> val]
      ELSE popped(Pop(val))

\* [val.pop(0)... for _ in range(val.pop(0))]: the count is popped first
PopCounted(sub, val) ==
  LET items(c, n) ==
        IF c.exc # "" THEN [exc |-> c.exc, result |-> PyNone, val |-> val]
        ELSE IF n.exc # "" THEN [exc |-> n.exc, result |-> PyNone, val |-> c.val]
        ELSE PopItems(n.n, sub, c.val, <<>>)
      counted(c) == items(c, RangeLen(c.item))
  IN  counted(Pop(val))

\* One right-hand side of a rule, fld = <<key, how, sub>>: what it pops and yields
Step(fld, val) ==
  LET converted(p) ==
        CASE fld[2] = "raw" -> [exc |-> "", result |-> p.item]
          [] fld[2] = "position" -> [exc |-> "", result |-> DecodePosition(p.item)]
          [] fld[2] = "time" -> FromTimestampIso(p.item)
          [] fld[2] = "time_or_none" -> TimeOrNone(p.item)
          [] fld[2] = "tz_or_none" -> [exc |-> "", result |-> TimezoneOrNone(p.item)]
          [] fld[2] = "sub" -> Subscript(p.item, fld[3])
      done(p, c) == [exc |-> c.exc, result |-> c.result, val |-> p.val]
      popped(p) == IF p.exc # "" THEN [exc |-> p.exc, result |-> PyNone, val |-> val]
                   ELSE done(p, converted(p))
  IN  IF fld[2] = "list" THEN PopCounted(fld[3], val) ELSE popped(Pop(val))

\* obj[key] = <right-hand side>, one assignment after the other
RECURSIVE PopFields(_, _, _)
PopFields(flds, val, obj) ==
  LET assign(s) ==
        IF s.exc # "" THEN [exc |-> s.exc, obj |-> PyDict(obj), val |-> s.val]
        ELSE PopFields(Tail(flds), s.val, DictSet(obj, PyStr(Head(flds)[1]), s.result))
  IN  IF Len(flds) = 0 THEN [exc |-> "", obj |-> PyDict(obj), val |-> val]
      ELSE assign(Step(Head(flds), val))

\* if len(val): obj[key] = val.pop(0), for each key in turn
RECURSIVE PopOptional(_, _, _)
PopOptional(keys, val, obj) ==
  IF Len(keys) = 0 THEN [exc |-> "", obj |-> PyDict(obj), val |-> val]
  ELSE IF Len(val) > 0
       THEN PopOptional(Tail(keys), Tail(val), DictSet(obj, PyStr(Head(keys)), Head(val)))
       ELSE PopOptional(Tail(keys), val, obj)

Raw(key) == <<key, "raw", PyNone>>

-----------------------------------------------------------------------------
(* KindleReaderDataStore.decode_object *)

ANNOT_CLASS_NAMES ==
  [t \in {0, 1, 2, 3, 10, 11} |->
     CASE t = 0 -> S.annotation_personal_bookmark
       [] t = 1 -> S.annotation_personal_highlight
       [] t = 2 -> S.annotation_personal_note
       [] t = 3 -> S.annotation_personal_clip_article
       [] t = 10 -> S.annotation_personal_handwritten_note
       [] t = 11 -> S.annotation_personal_sticky_note]

AnnotClassNames == {ANNOT_CLASS_NAMES[t] : t \in DOMAIN ANNOT_CLASS_NAMES}

SingleValueNames ==
  {S.clock_data_store, S.dictionary, S.lpu, S.pdf_contrast, S.sync_lpr,
   S.tpz_line_spacing, S.XRAY_OTA_UPDATE_STATE, S.XRAY_SHOWING_SPOILERS,
   S.XRAY_SORTING_STATE, S.XRAY_TAB_STATE}

KeyValueNames ==
  {S.dict_prefs_v2, S.EndActions, S.ReaderMetrics, S.StartActions, S.Translator,
   S.Wikipedia}

JsonNames == {S.buy_asin_response_data, S.next_in_series_info_data, S.price_info_data}

\* the names whose rule is `obj = <one right-hand side>`
WholeRule(name) ==
  CASE name \in SingleValueNames \cup JsonNames -> Raw(<<>>)
    [] name = S.erl -> <<<<>>, "position", PyNone>>
    [] name \in {S.saved_avl_interval_tree, S.timer_average_calculator_outliers} ->
         <<<<>>, "list", PyNone>>
    [] name = S.page_history_store -> <<<<>>, "list", PyStr(S.page_history_record)>>

WholeNames ==
  SingleValueNames \cup JsonNames
    \cup {S.erl, S.saved_avl_interval_tree, S.timer_average_calculator_outliers,
          S.page_history_store}

FontPrefsRequired ==
  <<Raw(S.typeface), Raw(S.lineSp), Raw(S.size), Raw(S.align), Raw(S.insetTop),
    Raw(S.insetLeft), Raw(S.insetBottom), Raw(S.insetRight), Raw(S.unknown1)>>

FontPrefsOptional ==
  <<S.bold, S.userSideloadableFont, S.customFontIndex, S.mobi7SystemFont,
    S.mobi7RestoreFont, S.readingPresetSelected, S.unknown2>>

AnnotationFields(name) ==
  <<<<S.startPosition, "position", PyNone>>, <<S.endPosition, "position", PyNone>>,
    <<S.creationTime, "time", PyNone>>, <<S.lastModificationTime, "time", PyNone>>,
    Raw(S.template)>>
  \o (CASE name = S.annotation_personal_note -> <<Raw(S.note)>>
        [] name = S.annotation_personal_handwritten_note -> <<Raw(S.handwritten_note_nbk_ref)>>
        [] name = S.annotation_personal_sticky_note -> <<Raw(S.sticky_note_nbk_ref)>>
        [] OTHER -> <<>>)

\* the names whose rule is a fixed run of obj[key] = ... assignments
FieldNames ==
  {S.fpr, S.updated_lpr, S.apnx_key, S.fixed_layout_data, S.sharing_limits,
   S.language_store, S.periodicals_view_state, S.purchase_state_data,
   S.timer_data_store, S.timer_data_store_v2, S.timer_model,
   S.timer_average_calculator, S.timer_average_calculator_distribution_normal,
   S.book_info_store, S.page_history_record, S.reader_state_preferences}
    \cup AnnotClassNames

Fields(name) ==
  CASE name \in {S.fpr, S.updated_lpr} ->
         <<<<S.position, "position", PyNone>>, <<S.time, "time_or_none", PyNone>>,
           <<S.timeZoneOffset, "tz_or_none", PyNone>>, Raw(S.country), Raw(S.device)>>
    [] name \in AnnotClassNames -> AnnotationFields(name)
    [] name = S.apnx_key ->
         <<Raw(S.asin), Raw(S.cdeType), Raw(S.sidecarAvailable),
           <<S.oPNToPosition, "list", PyNone>>, Raw(S.first), Raw(S.unknown1),
           Raw(S.unknown2), Raw(S.pageMap)>>
    [] name = S.fixed_layout_data -> <<Raw(S.unknown1), Raw(S.unknown2), Raw(S.unknown3)>>
    [] name = S.sharing_limits -> <<Raw(S.accumulated)>>
    [] name = S.language_store -> <<Raw(S.language), Raw(S.unknown1)>>
    [] name = S.periodicals_view_state -> <<Raw(S.unknown1), Raw(S.unknown2)>>
    [] name = S.purchase_state_data -> <<Raw(S.state), <<S.time, "time", PyNone>>>>
    [] name = S.timer_data_store ->
         <<Raw(S.on), Raw(S.readingTimerModel), Raw(S.version)>>
    [] name = S.timer_data_store_v2 ->
         <<Raw(S.on), Raw(S.readingTimerModel), Raw(S.version), Raw(S.lastOption)>>
    [] name = S.timer_model ->
         <<Raw(S.version), Raw(S.totalTime), Raw(S.totalWords), Raw(S.totalPercent),
           <<S.averageCalculator, "sub", PyStr(S.timer_average_calculator)>>>>
    [] name = S.timer_average_calculator ->
         <<<<S.samples1, "list", PyNone>>, <<S.samples2, "list", PyNone>>,
           <<S.normalDistributions, "list",
             PyStr(S.timer_average_calculator_distribution_normal)>>,
           <<S.outliers, "list", PyStr(S.timer_average_calculator_outliers)>>>>
    [] name = S.timer_average_calculator_distribution_normal ->
         <<Raw(S.count), Raw(S.sum), Raw(S.sumOfSquares)>>
    [] name = S.book_info_store -> <<Raw(S.numberOfWords), Raw(S.percentOfBook)>>
    [] name = S.page_history_record ->
         <<<<S.position, "position", PyNone>>, <<S.time, "time", PyNone>>>>
    [] name = S.reader_state_preferences ->
         <<Raw(S.fontPreferences), Raw(S.leftMargin), Raw(S.rightMargin),
           Raw(S.topMargin), Raw(S.bottomMargin), Raw(S.unknown1)>>

\* for _ in range(n): k = val.pop(0); obj[k] = val.pop(0)
RECURSIVE KeyValuePairs(_, _, _)
KeyValuePairs(n, val, obj) ==
  LET pair(k, v) ==
        IF k.exc # "" THEN [exc |-> k.exc, obj |-> PyDict(obj), val |-> val]
        ELSE IF v.exc # "" THEN [exc |-> v.exc, obj |-> PyDict(obj), val |-> k.val]
        ELSE IF ~IsHashable(k.item)
          THEN [exc |-> "TypeError", obj |-> PyDict(obj), val |-> v.val]
        ELSE IF Kind(k.item) = "float"
          THEN [exc |-> Unmodelled, obj |-> PyDict(obj), val |-> v.val]
        ELSE KeyValuePairs(n - 1, v.val, DictSet(obj, k.item, v.item))
      key(k) == pair(k, Pop(k.val))
  IN  IF n = 0 THEN [exc |-> "", obj |-> PyDict(obj), val |-> val]
      ELSE key(Pop(val))

KeyValueRule(val) ==
  LET pairs(c, n) ==
        IF c.exc # "" THEN [exc |-> c.exc, obj |-> PyDict(<<>>), val |-> val]
        ELSE IF n.exc # "" THEN [exc |-> n.exc, obj |-> PyDict(<<>>), val |-> c.val]
        ELSE KeyValuePairs(n.n, c.val, <<>>)
      counted(c) == pairs(c, RangeLen(c.item))
  IN  counted(Pop(val))

LprRule(val) ==
  LET versioned(version) ==
        IF version.exc # "" THEN [exc |-> version.exc, obj |-> PyDict(<<>>), val |-> val]
        ELSE IF Kind(version.item) \in {"str", "isostr"}
          THEN [exc |-> "",
                obj |-> PyDict(<<<<PyStr(S.position), DecodePosition(version.item)>>>>),
                val |-> version.val]
        ELSE IF Kind(version.item) = "float"
          THEN [exc |-> Unmodelled, obj |-> PyDict(<<>>), val |-> version.val]
        ELSE IF ~IsIntLike(version.item)
          THEN [exc |-> "TypeError", obj |-> PyDict(<<>>), val |-> version.val]
        ELSE IF NumOf(version.item) <= 2
          THEN PopFields(<<<<S.position, "position", PyNone>>,
                           <<S.time, "time_or_none", PyNone>>>>, version.val, <<>>)
        ELSE [exc |-> "Unknown lpr version", obj |-> PyDict(<<>>), val |-> version.val]
  IN  versioned(Pop(val))

\* len(annotation) != 1 or annot_class_name not in annotation
MalformedAnnotation(annotation, annot_class_name) ==
  CASE Kind(annotation) = "dict" ->
         Len(annotation[2]) # 1 \/ ~HasKey(annotation[2], annot_class_name)
    [] Kind(annotation) = "list" ->
         Len(annotation[2]) # 1 \/ annotation[2][1] # annot_class_name
    [] Kind(annotation) = "str" -> TRUE

\* the inner loop over the tree: unwrap each single-key {class name: payload}
RECURSIVE UnwrapAnnotations(_, _, _)
UnwrapAnnotations(tree, annot_class_name, annotations) ==
  LET unwrap(annotation) ==
        IF Kind(annotation) \notin {"dict", "list", "str"}
          THEN [exc |-> "TypeError", result |-> PyNone]
        ELSE IF MalformedAnnotation(annotation, annot_class_name)
          THEN [exc |-> "Unknown annotation format", result |-> PyNone]
        ELSE IF Kind(annotation) = "list" THEN [exc |-> "TypeError", result |-> PyNone]
        ELSE UnwrapAnnotations(Tail(tree), annot_class_name,
                               Append(annotations, DictGet(annotation[2], annot_class_name)))
  IN  IF Len(tree) = 0 THEN [exc |-> "", result |-> PyList(annotations)]
      ELSE unwrap(Head(tree))

\* one pass of the outer loop of annotation.cache.object, then the remaining passes
RECURSIVE AnnotationCacheEntries(_, _, _)
AnnotationCacheEntries(n, val, obj) ==
  LET fail(e, v) == [exc |-> e, obj |-> PyDict(obj), val |-> v]
      store(child, annot_class_name, annotations) ==
        IF annotations.exc # "" THEN fail(annotations.exc, child.val)
        ELSE AnnotationCacheEntries(n - 1, child.val,
                                    DictSet(obj, annot_class_name, annotations.result))
      unwrap(child, annot_class_name, tree) ==
        IF tree.exc # "" THEN fail(tree.exc, child.val)
        ELSE IF Kind(tree.result) # "list" THEN fail(Unmodelled, child.val)
        ELSE store(child, annot_class_name,
                   UnwrapAnnotations(tree.result[2], annot_class_name, <<>>))
      entry(annotation_type, annot_class_name, child) ==
        IF child.exc # "" THEN fail(child.exc, annotation_type.val)
        ELSE unwrap(child, annot_class_name,
                    Subscript(child.item, PyStr(S.saved_avl_interval_tree)))
      typed(annotation_type) ==
        IF annotation_type.exc # "" THEN fail(annotation_type.exc, val)
        ELSE IF Kind(annotation_type.item) = "float"
          THEN fail(Unmodelled, annotation_type.val)
        ELSE IF ~IsIntLike(annotation_type.item)
          THEN fail("TypeError", annotation_type.val)
        ELSE IF NumOf(annotation_type.item) \notin DOMAIN ANNOT_CLASS_NAMES
          THEN fail("Unknown annotation type", annotation_type.val)
        ELSE entry(annotation_type, PyStr(ANNOT_CLASS_NAMES[NumOf(annotation_type.item)]),
                   Pop(annotation_type.val))
  IN  IF n = 0 THEN [exc |-> "", obj |-> PyDict(obj), val |-> val]
      ELSE typed(Pop(val))

AnnotationCacheRule(val) ==
  LET entries(c, n) ==
        IF c.exc # "" THEN [exc |-> c.exc, obj |-> PyDict(<<>>), val |-> val]
        ELSE IF n.exc # "" THEN [exc |-> n.exc, obj |-> PyDict(<<>>), val |-> c.val]
        ELSE AnnotationCacheEntries(n.n, c.val, <<>>)
      counted(c) == entries(c, RangeLen(c.item))
  IN  counted(Pop(val))

FontPrefsRule(val) ==
  LET optional(req) ==
        IF req.exc # "" THEN req ELSE PopOptional(FontPrefsOptional, req.val, req.obj[2])
  IN  optional(PopFields(FontPrefsRequired, val, <<>>))

KnownNames ==
  WholeNames \cup KeyValueNames \cup FieldNames
    \cup {S.lpr, S.annotation_cache_object, S.font_prefs}

\* the else branch with `val = []` lost
UnknownStructureKeepsVal(val) == [exc |-> "", obj |-> PyList(val), val |-> val]

\* the else branch: obj = val; val = []
UnknownStructure(val) == [exc |-> "", obj |-> PyList(val), val |-> <<>>]

\* the if/elif chain: the rule of `name` run on val; obj and what is left of val
Rule(name, val) ==
  LET whole(s) == [exc |-> s.exc, obj |-> s.result, val |-> s.val]
  IN  CASE name \in WholeNames -> whole(Step(WholeRule(name), val))
        [] name \in KeyValueNames -> KeyValueRule(val)
        [] name = S.lpr -> LprRule(val)
        [] name = S.annotation_cache_object -> AnnotationCacheRule(val)
        [] name = S.font_prefs -> FontPrefsRule(val)
        [] name \in FieldNames -> PopFields(Fields(name), val, <<>>)
        [] OTHER -> UnknownStructure(val)

\* the final check lost
ExcessCheckSkipped(name, val) == ""

\* the final check: if len(val): raise Exception("Excess values found ...")
ExcessCheck(name, val) == IF Len(val) > 0 THEN "Excess values found for structure" ELSE ""

\* the else branch: self.log.error("Unknown data structure %s" % name)
UnknownLog(name) ==
  IF name[2] \in KnownNames THEN <<>> ELSE <<<<"error", "Unknown data structure", name>>>>

\* decode_object(name, val), name a str: the result and what it logs
DecodeObject(name, val) ==
  LET checked(r, excess, logged) ==
        IF r.exc # "" THEN [exc |-> r.exc, value |-> PyNone, log |-> logged]
        ELSE IF excess # "" THEN [exc |-> excess, value |-> PyNone, log |-> logged]
        ELSE [exc |-> "", value |-> PyDict(<<<<name, r.obj>>>>), log |-> logged]
      ruled(r) == checked(r, ExcessCheck(name, r.val), UnknownLog(name))
  IN  ruled(Rule(name[2], val))

-----------------------------------------------------------------------------
(* KindleReaderDataStore.decode_next *)

DATATYPE_BOOLEAN == 0
DATATYPE_INT == 1
DATATYPE_LONG == 2
DATATYPE_UTF == 3
DATATYPE_DOUBLE == 4
DATATYPE_SHORT == 5
DATATYPE_FLOAT == 6
DATATYPE_BYTE == 7
DATATYPE_CHAR == 9
DATATYPE_OBJECT_BEGIN == -2
DATATYPE_OBJECT_END == -1

\* the struct format of the fixed-width datatypes
PrimitiveFormat(datatype) ==
  CASE datatype = DATATYPE_INT -> ">l"
    [] datatype = DATATYPE_LONG -> ">q"
    [] datatype = DATATYPE_DOUBLE -> ">d"
    [] datatype = DATATYPE_SHORT -> ">h"
    [] datatype = DATATYPE_FLOAT -> ">f"
    [] datatype = DATATYPE_BYTE -> "b"

\* b == 0 -> False, b == 1 -> True, else raise
BooleanOf(b) ==
  IF b = 0 THEN [exc |-> "", value |-> PyBool(FALSE)]
  ELSE IF b = 1 THEN [exc |-> "", value |-> PyBool(TRUE)]
  ELSE [exc |-> "Unknown boolean value", value |-> PyNone]

RECURSIVE DecodeNext(_, _), DecodeTyped(_, _, _), DecodeChildren(_, _, _, _)

\* decode_next(datatype) for a given datatype: the value or the exception, the
\* offset the cursor is left at, and what the nested decode_object calls logged
DecodeTyped(buf, off, datatype) ==
  LET Fail(e, o) == [exc |-> e, value |-> PyNone, offset |-> o, log |-> <<>>]
      Ok(v, o) == [exc |-> "", value |-> v, offset |-> o, log |-> <<>>]
      Checked(r, o) == IF r.exc # "" THEN Fail(r.exc, o) ELSE Ok(r.value, o)
      boolean(u) ==
        IF u.exc # "" THEN Fail(u.exc, u.offset) ELSE Checked(BooleanOf(u.result[2]), u.offset)
      primitive(u) == IF u.exc # "" THEN Fail(u.exc, u.offset) ELSE Ok(u.result, u.offset)
      decoded(s, o) == IF s.exc # "" THEN Fail(s.exc, o) ELSE Ok(s.result, o)
      extracted(data) ==
        IF data.exc # "" THEN Fail(data.exc, data.offset)
        ELSE decoded(Utf8Decode(data.result[2], <<>>), data.offset)
      sized(n) ==
        IF n.exc # "" THEN Fail(n.exc, n.offset)
        ELSE extracted(Extract(buf, n.offset, n.result, PyNone, TRUE))
      utf(flag) ==
        IF flag.exc # "" THEN flag
        ELSE IF flag.value[2] THEN Ok(PyStr(<<>>), flag.offset)
        ELSE sized(Unpack(buf, flag.offset, ">H", TRUE))
      char(u) ==
        IF u.exc # "" THEN Fail(u.exc, u.offset)
        ELSE decoded(Utf8Decode(u.result[2], <<>>), u.offset)
      ended(val, end, obj) ==
        [exc |-> obj.exc, value |-> obj.value, offset |-> end.offset,
         log |-> val.log \o obj.log]
      children(name, val) ==
        IF val.exc # "" THEN [val EXCEPT !.value = PyNone]
        ELSE ended(val, Unpack(buf, val.offset, "b", TRUE),
                   DecodeObject(name.value, val.value))
      named(name) ==
        IF name.exc # "" THEN name
        ELSE children(name, DecodeChildren(buf, name.offset, <<>>, <<>>))
  IN
  CASE datatype = DATATYPE_BOOLEAN -> boolean(Unpack(buf, off, "b", TRUE))
    [] datatype \in {DATATYPE_INT, DATATYPE_LONG, DATATYPE_DOUBLE, DATATYPE_SHORT,
                     DATATYPE_FLOAT, DATATYPE_BYTE} ->
         primitive(Unpack(buf, off, PrimitiveFormat(datatype), TRUE))
    [] datatype = DATATYPE_UTF -> utf(DecodeTyped(buf, off, DATATYPE_BOOLEAN))
    [] datatype = DATATYPE_CHAR -> char(Unpack(buf, off, "c", TRUE))
    [] datatype = DATATYPE_OBJECT_BEGIN -> named(DecodeTyped(buf, off, DATATYPE_UTF))
    [] OTHER -> Fail("Unknown datatype", off)

\* while self.krds.unpack("b", advance=False) != DATATYPE_OBJECT_END:
\*     val.append(self.decode_next())
DecodeChildren(buf, off, val, logged) ==
  LET appended(child) ==
        IF child.exc # ""
          THEN [exc |-> child.exc, value |-> val, offset |-> child.offset,
                log |-> logged \o child.log]
        ELSE DecodeChildren(buf, child.offset, Append(val, child.value),
                            logged \o child.log)
      peeked(peek) ==
        IF peek.exc # ""
          THEN [exc |-> peek.exc, value |-> val, offset |-> off, log |-> logged]
        ELSE IF peek.result[2] = DATATYPE_OBJECT_END
          THEN [exc |-> "", value |-> val, offset |-> off, log |-> logged]
        ELSE appended(DecodeNext(buf, off))
  IN  peeked(Unpack(buf, off, "b", FALSE))

\* decode_next(): the datatype is the next byte
DecodeNext(buf, off) ==
  LET typed(datatype) ==
        IF datatype.exc # ""
        THEN [exc |-> datatype.exc, value |-> PyNone, offset |-> off, log |-> <<>>]
        ELSE DecodeTyped(buf, datatype.offset, datatype.result[2])
  IN  typed(Unpack(buf, off, "b", TRUE))

-----------------------------------------------------------------------------
(* KindleReaderDataStore.deserialize, one action per statement *)

SIGNATURE == <<0, 0, 0, 0, 0, 26, 177, 38>>

NoResult == [exc |-> "", value |-> PyNone, at |-> ""]

\* an exception leaves deserialize from the statement `at`
Raise(e, at) ==
  /\ pc' = "raised"
  /\ result' = [exc |-> e, value |-> PyNone, at |-> at]

\* the merge with the `if k in value` check lost
RECURSIVE MergeItemsUnchecked(_, _)
MergeItemsUnchecked(items, into) ==
  IF Len(items) = 0 THEN [exc |-> "", value |-> into]
  ELSE MergeItemsUnchecked(Tail(items), DictSet(into, Head(items)[1], Head(items)[2]))

\* for k, v in val.items(): the duplicate check and value[k] = v
RECURSIVE MergeItems(_, _)
MergeItems(items, into) ==
  IF Len(items) = 0 THEN [exc |-> "", value |-> into]
  ELSE IF HasKey(into, Head(items)[1])
    THEN [exc |-> "KindleReaderDataStore has duplicate item", value |-> into]
  ELSE MergeItems(Tail(items), DictSet(into, Head(items)[1], Head(items)[2]))

\* the except clause with the second log call lost
FailureLogOffsetOnly(off, partial) ==
  <<<<"info", "KindleReaderDataStore decode failed at offset",
      Len(buffer) - RemainingLen(buffer, off)>>>>

\* lines 75-76, the except clause: the offset and the partial value are logged
FailureLog(off, partial) ==
  <<<<"info", "KindleReaderDataStore decode failed at offset",
      Len(buffer) - RemainingLen(buffer, off)>>,
    <<"info", "partial value", PyDict(partial)>>>>

\* lines 58-62: the signature
ExtractSignature ==
  LET checked(signature) ==
        /\ offset' = signature.offset
        /\ IF signature.exc # "" THEN Raise(signature.exc, "signature")
           ELSE IF signature.result # PyBytes(SIGNATURE)
             THEN Raise("KindleReaderDataStore signature is incorrect", "signature")
           ELSE pc' = "first_value" /\ UNCHANGED result
  IN  /\ pc = "signature"
      /\ checked(Extract(buffer, offset, PyInt(Len(SIGNATURE)), PyNone, TRUE))
      /\ UNCHANGED <<buffer, value_cnt, i, value, log, call>>

\* lines 64-66: the version
DecodeFirstValue ==
  LET checked(first_value) ==
        /\ offset' = first_value.offset
        /\ log' = log \o first_value.log
        /\ IF first_value.exc # "" THEN Raise(first_value.exc, "first_value")
           ELSE IF ~PyEqInt(first_value.value, 1) THEN Raise("first_value", "first_value")
           ELSE pc' = "value_cnt" /\ UNCHANGED result
  IN  /\ pc = "first_value"
      /\ checked(DecodeNext(buffer, offset))
      /\ UNCHANGED <<buffer, value_cnt, i, value, call>>

\* lines 68-71: the count, the empty mapping and range(value_cnt)
DecodeValueCnt ==
  LET counted(cnt) ==
        /\ offset' = cnt.offset
        /\ log' = log \o cnt.log
        /\ IF cnt.exc # ""
             THEN Raise(cnt.exc, "value_cnt") /\ UNCHANGED <<value_cnt, value>>
           ELSE /\ value_cnt' = cnt.value
                /\ value' = <<>>
                /\ IF RangeLen(cnt.value).exc # ""
                     THEN Raise(RangeLen(cnt.value).exc, "range")
                     ELSE pc' = "loop" /\ UNCHANGED result
  IN  /\ pc = "value_cnt"
      /\ counted(DecodeNext(buffer, offset))
      /\ UNCHANGED <<buffer, i, call>>

\* lines 71-83: one pass of the loop over the top-level values
DecodeTopLevel ==
  LET put(merged) ==
        /\ value' = merged.value
        /\ IF merged.exc # "" THEN Raise(merged.exc, "duplicate") /\ UNCHANGED i
           ELSE pc' = "loop" /\ i' = i + 1 /\ UNCHANGED result
      decoded(val) ==
        /\ offset' = val.offset
        /\ IF val.exc # ""
             THEN /\ log' = log \o val.log \o FailureLog(val.offset, value)
                  /\ Raise(val.exc, "decode_next")
                  /\ UNCHANGED <<value, i>>
           ELSE /\ log' = log \o val.log
                /\ IF Kind(val.value) # "dict"
                     THEN Raise("AttributeError", "items") /\ UNCHANGED <<value, i>>
                     ELSE put(MergeItems(val.value[2], value))
  IN  /\ pc = "loop"
      /\ i < RangeLen(value_cnt).n
      /\ decoded(DecodeNext(buffer, offset))
      /\ UNCHANGED <<buffer, value_cnt, call>>

\* the return with the extra-data report lost
ReturnUnreported ==
  /\ pc = "loop"
  /\ i >= RangeLen(value_cnt).n
  /\ result' = [exc |-> "", value |-> PyDict(value), at |-> "return"]
  /\ pc' = "returned"
  /\ UNCHANGED <<buffer, offset, value_cnt, i, value, log, call>>

\* lines 85-88: the loop is over
Return ==
  /\ pc = "loop"
  /\ i >= RangeLen(value_cnt).n
  /\ log' = IF RemainingLen(buffer, offset) # 0
            THEN Append(log, <<"error", "bytes of extra data", RemainingLen(buffer, offset)>>)
            ELSE log
  /\ result' = [exc |-> "", value |-> PyDict(value), at |-> "return"]
  /\ pc' = "returned"
  /\ UNCHANGED <<buffer, offset, value_cnt, i, value, call>>

-----------------------------------------------------------------------------
(* class Deserializer driven directly: any unpack or extract, in any order *)

Formats == {"b", "c", ">h", ">H", ">l", ">f", ">q", ">d"}

CallUnpack(fmt, advance) ==
  LET called(r) ==
        /\ offset' = r.offset
        /\ result' = [exc |-> r.exc, value |-> r.result, at |-> "unpack"]
  IN  /\ pc = "cursor"
      /\ called(Unpack(buffer, offset, fmt, advance))
      /\ call' = [fn |-> "unpack", fmt |-> fmt, size |-> PyInt(CalcSize(fmt)),
                  upto |-> PyNone, advance |-> advance]
      /\ UNCHANGED <<buffer, pc, value_cnt, i, value, log>>

CallExtract(size, upto, advance) ==
  LET called(r) ==
        /\ offset' = r.offset
        /\ result' = [exc |-> r.exc, value |-> r.result, at |-> "extract"]
  IN  /\ pc = "cursor"
      /\ called(Extract(buffer, offset, size, upto, advance))
      /\ call' = [fn |-> "extract", fmt |-> "", size |-> size, upto |-> upto,
                  advance |-> advance]
      /\ UNCHANGED <<buffer, pc, value_cnt, i, value, log>>

\* decode_object called on its own
CallDecodeObject ==
  LET called(r) ==
        /\ log' = log \o r.log
        /\ IF r.exc # "" THEN Raise(r.exc, "decode_object")
           ELSE /\ pc' = "returned"
                /\ result' = [exc |-> "", value |-> r.value, at |-> "return"]
  IN  /\ pc = "call"
      /\ called(DecodeObject(call.name, call.val))
      /\ UNCHANGED <<buffer, offset, value_cnt, i, value, call>>

-----------------------------------------------------------------------------
(* The inputs: files as the format lays them out, and children as decode_next *)
(* yields them                                                               *)

MaxEntries == 2    \* top-level objects present in a file
MaxTrailing == 1   \* bytes after the last object
MaxCount == 2      \* the leading count of a counted rule
MaxBuf == 9        \* length of a buffer read through Deserializer alone

Bytes2(n) == <<n \div 256, n % 256>>
Int32Bytes(n) == IF n >= 0 THEN <<0, 0>> \o Bytes2(n) ELSE <<255, 255>> \o Bytes2(n + 65536)
Int64Bytes(n) ==
  IF n >= 0 THEN <<0, 0, 0, 0>> \o Int32Bytes(n) ELSE <<255, 255, 255, 255>> \o Int32Bytes(n)

EncBool(b) == <<0, IF b THEN 1 ELSE 0>>
EncInt(n) == <<1>> \o Int32Bytes(n)
EncLong(n) == <<2>> \o Int64Bytes(n)
EncUtf(cs) == IF Len(cs) = 0 THEN <<1>> ELSE <<0>> \o Bytes2(Len(cs)) \o cs
EncString(cs) == <<3>> \o EncUtf(cs)
EncObject(name, children) == <<254>> \o EncUtf(name) \o children \o <<255>>

RECURSIVE Flatten(_)
Flatten(ss) == IF Len(ss) = 0 THEN <<>> ELSE Head(ss) \o Flatten(Tail(ss))

SeqsUpTo(set, n) == UNION {[1..k -> set] : k \in 0..n}

Prefixes(s) == {SubSeq(s, 1, k) : k \in 0..Len(s)}

\* a count of 0..MaxCount followed by that many rows
Counted(rows) ==
  UNION { {<<PyInt(n)>> \o Flatten(xs) : xs \in [1..n -> rows]} : n \in 0..MaxCount }

FontPrefs9 ==
  EncString(<<115>>) \o EncInt(-1) \o EncInt(3) \o EncInt(-1) \o EncInt(-1)
    \o EncInt(-1) \o EncInt(-1) \o EncInt(-1) \o EncInt(-1)

\* the top-level values a file is assembled from
Entries ==
  { EncObject(S.clock_data_store, EncInt(42)),
    EncObject(S.clock_data_store, EncInt(7)),
    EncObject(S.lpr, EncInt(1) \o EncString(<<112>>) \o EncLong(-1)),
    EncObject(<<120>>, EncInt(1) \o EncObject(<<>>, <<>>)),
    EncObject(S.dictionary, EncInt(1) \o EncInt(2)),
    EncInt(5) }

Header(version, count) == SIGNATURE \o version \o count

Files ==
  { Header(EncInt(1), EncInt(n)) \o Flatten(es) \o [k \in 1..t |-> 0] :
      n \in -1..(MaxEntries + 1), es \in SeqsUpTo(Entries, MaxEntries),
      t \in 0..MaxTrailing }

\* values found where the version is expected
Versions ==
  { EncInt(1), EncInt(0), EncInt(2), EncInt(-1), EncBool(TRUE), EncBool(FALSE),
    EncLong(1), <<5, 0, 1>>, <<7, 1>>, <<4, 63, 240, 0, 0, 0, 0, 0, 0>>,
    <<6, 63, 128, 0, 0>>, <<6, 64, 0, 0, 0>>, EncString(<<49>>), <<9, 49>>,
    <<9, 200>>, <<0, 2>>, <<8>>, <<255>>, EncObject(<<120>>, EncInt(1)),
    <<3, 0, 0, 2, 195, 169>>, <<3, 0, 0, 1, 195>> }

\* values found where the count is expected
Counts == {EncBool(TRUE), EncLong(2), EncString(<<49>>), <<4, 63, 240, 0, 0, 0, 0, 0, 0>>}

TwoFontPrefs ==
  Header(EncInt(1), EncInt(2)) \o EncObject(S.font_prefs, FontPrefs9)
    \o EncObject(S.font_prefs, FontPrefs9 \o EncInt(1))

Inputs ==
  Files
    \cup { Header(v, EncInt(1)) \o EncObject(S.clock_data_store, EncInt(42)) : v \in Versions }
    \cup { Header(EncInt(1), c) \o EncObject(S.clock_data_store, EncInt(42))
             \o EncObject(S.dictionary, EncInt(7)) : c \in Counts }
    \cup Prefixes(TwoFontPrefs)
    \cup { <<0, 0, 0, 0, 0, 26, 177, 39>> \o EncInt(1) \o EncInt(0) }

\* children: values of the kinds decode_next returns
Times == {PyInt(-1), PyInt(0), PyInt(1500), PyInt(-2500)}
Position == PyStr(<<112>>)
Extras == {PyInt(0), PyStr(<<>>)}

\* what decode_next returns for an object whose children decoded to val
Child(name, val) == DecodeObject(PyStr(name), val).value

RECURSIVE ExactChildren(_)

\* the lists one right-hand side of a rule pops without failing
StepChildren(fld) ==
  CASE fld[2] = "raw" -> {<<PyInt(7)>>}
    [] fld[2] = "position" -> {<<Position>>}
    [] fld[2] \in {"time", "time_or_none"} -> {<<t>> : t \in Times}
    [] fld[2] = "tz_or_none" -> {<<PyInt(-1)>>, <<PyInt(60)>>}
    [] fld[2] = "sub" -> {<<Child(fld[3][2], c)>> : c \in ExactChildren(fld[3][2])}
    [] fld[2] = "list" ->
         Counted(IF fld[3] = PyNone THEN {<<PyInt(7)>>}
                 ELSE {<<Child(fld[3][2], c)>> : c \in ExactChildren(fld[3][2])})

\* the lists a run of assignments pops without failing: each right-hand side takes
\* every one of its lists in turn while the others keep one list each
FieldsChildren(flds) ==
  LET one == [j \in 1..Len(flds) |-> CHOOSE a \in StepChildren(flds[j]) : TRUE]
  IN  UNION { { Flatten([j \in 1..Len(flds) |-> IF j = k THEN a ELSE one[j]]) :
                a \in StepChildren(flds[k]) } :
              k \in 1..Len(flds) }

Values == {PyInt(7), PyBool(TRUE), Position, PyFloat(<<63, 128, 0, 0>>)}
Keys == {PyStr(<<97>>), PyStr(<<98>>), PyInt(1), PyBool(TRUE)}

Bookmark(t) ==
  Child(S.annotation_personal_bookmark, <<Position, Position, t, PyInt(0), PyInt(7)>>)
Highlight ==
  Child(S.annotation_personal_highlight, <<Position, Position, PyInt(0), PyInt(0), PyInt(7)>>)

TreeItems == {Bookmark(PyInt(0)), Bookmark(PyInt(1500)), Highlight}

Trees == Counted({<<x>> : x \in TreeItems})

Tree(children) == Child(S.saved_avl_interval_tree, children)

\* the (type, tree) entries of an annotation cache, well-formed or not
CacheEntries ==
  { <<PyInt(0), Tree(<<PyInt(1), Bookmark(PyInt(0))>>)>>,
    <<PyInt(0), Tree(<<PyInt(2), Bookmark(PyInt(1500)), Bookmark(PyInt(0))>>)>>,
    <<PyInt(1), Tree(<<PyInt(1), Highlight>>)>>,
    <<PyBool(FALSE), Tree(<<PyInt(0)>>)>>,
    <<PyInt(0), Tree(<<PyInt(1), Highlight>>)>>,
    <<PyInt(0), Tree(<<PyInt(1), PyInt(7)>>)>>,
    <<PyInt(0), Tree(<<PyInt(1), Position>>)>>,
    <<PyInt(5), Tree(<<PyInt(0)>>)>>,
    <<Position, Tree(<<PyInt(0)>>)>>,
    <<PyInt(1), Highlight>>,
    <<PyInt(1), PyInt(7)>> }

ExactChildren(name) ==
  CASE name \in SingleValueNames \cup JsonNames \cup {S.erl} -> {<<v>> : v \in Values}
    [] name = S.saved_avl_interval_tree -> Trees
    [] name \in {S.timer_average_calculator_outliers, S.page_history_store} ->
         StepChildren(WholeRule(name))
    [] name \in KeyValueNames ->
         Counted({<<k, PyInt(7)>> : k \in Keys})
    [] name = S.lpr ->
         {<<Position>>} \cup {<<v, Position, t>> : v \in {PyInt(0), PyInt(2), PyInt(-1)}, t \in Times}
    [] name = S.annotation_cache_object ->
         Counted(CacheEntries)
    [] name = S.font_prefs -> {[k \in 1..n |-> PyInt(7)] : n \in 9..16}
    [] name \in FieldNames -> FieldsChildren(Fields(name))

UnknownNames == {<<>>, <<120>>, <<108, 112, 114, 50>>}

\* the decode_object calls studied: lists a rule fits, the same with the last child
\* dropped or with one more child, and lists of the wrong shape
ObjectCalls ==
  UNION { UNION { { [name |-> n, val |-> e], [name |-> n, val |-> SubSeq(e, 1, Len(e) - 1)] }
                    \cup { [name |-> n, val |-> Append(e, x)] : x \in Extras } :
                  e \in ExactChildren(n) } :
          n \in KnownNames }
    \cup { [name |-> n, val |-> v] : n \in UnknownNames, v \in SeqsUpTo(Values, MaxCount) }
    \cup { [name |-> S.lpr, val |-> <<PyInt(3), Position, PyInt(0)>>],
           [name |-> S.lpr, val |-> <<PyNone>>],
           [name |-> S.lpr, val |-> <<PyInt(1), Position, Position>>],
           [name |-> S.dict_prefs_v2, val |-> <<PyInt(1), Highlight, PyInt(7)>>],
           [name |-> S.dict_prefs_v2, val |-> <<Position>>],
           [name |-> S.dict_prefs_v2, val |-> <<PyInt(-1)>>],
           [name |-> S.timer_model,
            val |-> <<PyInt(7), PyInt(7), PyInt(7), PyInt(7), Highlight>>],
           [name |-> S.timer_model,
            val |-> <<PyInt(7), PyInt(7), PyInt(7), PyInt(7), PyInt(7)>>],
           [name |-> S.annotation_cache_object, val |-> <<Highlight>>],
           [name |-> S.annotation_cache_object, val |-> <<PyInt(1), Highlight, PyInt(7)>>] }

CursorBuffers ==
  UNION { Prefixes(SubSeq(b, 1, MaxBuf)) :
          b \in { <<0, 0, 0, 0, 0, 0, 0, 0, 1, 42, 0, 0>>,
                  <<255, 255, 255, 255, 255, 255, 255, 255, 254, 3, 255, 255>> } }

CursorSizes == {PyNone} \cup {PyInt(n) : n \in -1..MaxBuf}

-----------------------------------------------------------------------------
(* Specifications *)

Idle ==
  /\ offset = 0
  /\ value_cnt = PyNone
  /\ i = 0
  /\ value = <<>>
  /\ log = <<>>
  /\ result = NoResult

\* deserialize, run on a file
Init ==
  /\ buffer \in Inputs
  /\ pc = "signature"
  /\ call = [fn |-> "deserialize"]
  /\ Idle

Next ==
  \/ ExtractSignature
  \/ DecodeFirstValue
  \/ DecodeValueCnt
  \/ DecodeTopLevel
  \/ Return

Spec == Init /\ [][Next]_vars

\* decode_object, run on the children of one object
InitObject ==
  /\ buffer = <<>>
  /\ pc = "call"
  /\ \E c \in ObjectCalls : call = [fn |-> "decode_object", name |-> PyStr(c.name), val |-> c.val]
  /\ Idle

NextObject == CallDecodeObject

SpecObject == InitObject /\ [][NextObject]_vars

\* a Deserializer, read in any order
InitCursor ==
  /\ buffer \in CursorBuffers
  /\ pc = "cursor"
  /\ call = [fn |-> "__init__", fmt |-> "", size |-> PyNone, upto |-> PyNone,
             advance |-> FALSE]
  /\ Idle

NextCursor ==
  \/ \E fmt \in Formats, advance \in BOOLEAN : CallUnpack(fmt, advance)
  \/ \E size \in CursorSizes, advance \in BOOLEAN : CallExtract(size, PyNone, advance)
  \/ \E upto \in CursorSizes \ {PyNone}, advance \in BOOLEAN :
       CallExtract(PyNone, upto, advance)

SpecCursor == InitCursor /\ [][NextCursor]_vars

\* no reachable state rests on arithmetic the model does not interpret
NoUnmodelled == result.exc # Unmodelled

-----------------------------------------------------------------------------
(* Properties of decode_object, checked under SpecObject *)

\* the decode_object call of the state was made on a name with a rule
KnownCall == pc # "call" /\ call.name[2] \in KnownNames

\* the children a rule pops unconditionally, for a list it decodes: every child,
\* but for font.prefs the nine before the `if len(val)` pops
RequiredLen(name, val) ==
  IF name[2] = S.font_prefs THEN Len(FontPrefsRequired) ELSE Len(val)

\* the rule of `name` pops every child of val and raises nothing
ConsumesAll(name, val) == Rule(name[2], val).exc = "" /\ Rule(name[2], val).val = <<>>

\* C1: decode_object on a known name consumes the children exactly. It returns
\* only if the rule popped every child; when the rule ran and left a child the
\* call raises the excess-values error; a list that decodes, given one child
\* more than its rule consumes, raises the excess-values error, and cut to one
\* child fewer than its rule requires raises IndexError (pop from empty list).
C1_ExactConsumption ==
  KnownCall =>
    /\ pc = "returned" => ConsumesAll(call.name, call.val)
    /\ (Rule(call.name[2], call.val).exc = "" /\ Rule(call.name[2], call.val).val # <<>>)
         => (pc = "raised" /\ result.exc = "Excess values found for structure")
    /\ pc = "returned" =>
         /\ \A x \in Extras :
              \/ ConsumesAll(call.name, Append(call.val, x))
              \/ DecodeObject(call.name, Append(call.val, x)).exc
                   = "Excess values found for structure"
         /\ \A x \in Extras :
              ConsumesAll(call.name, Append(call.val, x))
                => (call.name[2] = S.font_prefs
                      /\ Len(call.val) < Len(FontPrefsRequired) + Len(FontPrefsOptional))
         /\ DecodeObject(call.name,
                         SubSeq(call.val, 1, RequiredLen(call.name, call.val) - 1)).exc
              = "IndexError: pop from empty list"

\* font.prefs with every optional field and one child more: the excess is raised
C1_Witness ==
  /\ pc = "raised"
  /\ call.name = PyStr(S.font_prefs)
  /\ Len(call.val) = Len(FontPrefsRequired) + Len(FontPrefsOptional) + 1
  /\ result.exc = "Excess values found for structure"

\* the epoch-millis children of a call and the keys they are stored under
TimeInputs ==
  CASE call.name[2] = S.lpr /\ Len(call.val) = 3 -> {<<S.time, call.val[3]>>}
    [] call.name[2] \in {S.fpr, S.updated_lpr} -> {<<S.time, call.val[2]>>}
    [] call.name[2] \in AnnotClassNames ->
         {<<S.creationTime, call.val[3]>>, <<S.lastModificationTime, call.val[4]>>}
    [] call.name[2] \in {S.purchase_state_data, S.page_history_record} ->
         {<<S.time, call.val[2]>>}
    [] OTHER -> {}

\* what the returned structure holds under `key`
Converted(key) == DictGet(result.value[2][1][2][2], PyStr(key))

\* out is the timestamp string of the instant t milliseconds from the epoch
IsTimestampOf(out, t) ==
  Kind(out) = "isostr" /\ out[2] * 1000 + out[3] \div 1000 = NumOf(t)

\* the rules that test the time against -1
SentineledNames == {S.lpr, S.fpr, S.updated_lpr}

\* C4 as stated: every epoch-millis field of every rule maps -1 to None and any
\* other value to a timestamp string.
C4_EverySentinel ==
  (KnownCall /\ pc = "returned") =>
    \A f \in TimeInputs :
      IF PyEqInt(f[2], -1) THEN Converted(f[1]) = PyNone
      ELSE IsTimestampOf(Converted(f[1]), f[2])

\* C4, amended: lpr, fpr and updated_lpr map the time -1 to None; the annotation
\* payloads, purchase.state.data and page.history.record convert every time,
\* -1 included, to a timestamp string; any other value maps to its timestamp string.
C4_SentinelWhereTested ==
  (KnownCall /\ pc = "returned") =>
    \A f \in TimeInputs :
      IF call.name[2] \in SentineledNames /\ PyEqInt(f[2], -1)
      THEN Converted(f[1]) = PyNone
      ELSE IsTimestampOf(Converted(f[1]), f[2])

\* purchase.state.data decoded with the time -1
C4_Witness ==
  /\ pc = "returned"
  /\ call.name = PyStr(S.purchase_state_data)
  /\ call.val[2] = PyInt(-1)
  /\ Converted(S.time) = IsoStr(-1, 999000)

\* C5: decode_object on a name with no rule never fails, whatever the children:
\* it logs the unknown-structure error, skips the excess check and returns
\* {name: the children as they came, in order}.
C5_UnknownPassesThrough ==
  (pc # "call" /\ call.name[2] \notin KnownNames) =>
    /\ pc = "returned"
    /\ result.exc = ""
    /\ result.value = PyDict(<<<<call.name, PyList(call.val)>>>>)
    /\ log = <<<<"error", "Unknown data structure", call.name>>>>

\* an unknown name with two children, returned
C5_Witness ==
  /\ pc = "returned"
  /\ call.name[2] \notin KnownNames
  /\ Len(call.val) = 2
  /\ Len(log) = 1

\* the items of the interval tree of entry k of an annotation.cache.object call
TreeOfEntry(k) == call.val[2 * k + 1][2][1][2][2]

\* the list the returned structure holds for the type of entry k
GroupOfEntry(k) == Converted(ANNOT_CLASS_NAMES[NumOf(call.val[2 * k])])[2]

\* C10 as stated: when annotation.cache.object decodes, every payload unwrapped
\* from the tree of each (type, tree) entry is in the output list of its class.
C10_NoPayloadMissing ==
  (pc = "returned" /\ call.name = PyStr(S.annotation_cache_object)) =>
    \A k \in 1..RangeLen(call.val[1]).n :
      \A j \in 1..Len(TreeOfEntry(k)) :
        \E m \in 1..Len(GroupOfEntry(k)) :
          GroupOfEntry(k)[m] = TreeOfEntry(k)[j][2][1][2]

-----------------------------------------------------------------------------
(* Properties of deserialize, checked under Spec *)

DuplicateItem == "KindleReaderDataStore has duplicate item"

\* no two entries of the mapping built so far have the same key
KeysDistinct ==
  \A a, b \in 1..Len(value) : KeyEq(value[a][1], value[b][1]) => a = b

\* the next top-level value decodes to an object whose name is already a key
NextIsDuplicate ==
  /\ pc = "loop"
  /\ i < RangeLen(value_cnt).n
  /\ DecodeNext(buffer, offset).exc = ""
  /\ Kind(DecodeNext(buffer, offset).value) = "dict"
  /\ \E j \in 1..Len(DecodeNext(buffer, offset).value[2]) :
       HasKey(value, DecodeNext(buffer, offset).value[2][j][1])

\* C2: top-level keys are unique. In every state of the loop and in a returned
\* mapping no name occurs twice and each pass has added one key; a top-level
\* entry whose name is already a key makes deserialize fail with the
\* duplicate-item error, whatever the entry holds, and nothing is returned.
C2_UniqueKeys ==
  /\ [](/\ KeysDistinct
        /\ pc \in {"loop", "returned"} => Len(value) = i
        /\ pc = "returned" => result.value = PyDict(value))
  /\ [][NextIsDuplicate =>
          /\ pc' = "raised"
          /\ result'.exc = DuplicateItem
          /\ result'.value = PyNone]_vars

\* clock.data.store decoded as 42, then a second clock.data.store holding 7
C2_Witness ==
  /\ pc = "raised"
  /\ result.exc = DuplicateItem
  /\ value = <<<<PyStr(S.clock_data_store), PyInt(42)>>>>
  /\ offset >= Len(EncObject(S.clock_data_store, EncInt(7)))
  /\ SubSeq(buffer, offset - Len(EncObject(S.clock_data_store, EncInt(7))) + 1, offset)
       = EncObject(S.clock_data_store, EncInt(7))

\* deserialize went past the check of first_value
PastVersion ==
  \/ pc \in {"value_cnt", "loop", "returned"}
  \/ pc = "raised" /\ result.at \notin {"signature", "first_value"}

\* C3 as stated: deserialize goes past the version check only if the value after
\* the signature is tagged Int32 (tag 1) and equals 1.
C3_VersionIsInt32One ==
  PastVersion =>
    /\ Len(buffer) >= Len(SIGNATURE) + Len(EncInt(1))
    /\ SubSeq(buffer, Len(SIGNATURE) + 1, Len(SIGNATURE) + Len(EncInt(1))) = EncInt(1)

\* where the first top-level value starts: after the signature, the version and
\* the count
FirstEntryOffset == DecodeNext(buffer, DecodeNext(buffer, Len(SIGNATURE)).offset).offset

\* the names of the first k top-level objects, as they lie in the file
RECURSIVE NamesFrom(_, _)
NamesFrom(off, k) ==
  IF k = 0 THEN <<>>
  ELSE <<DecodeNext(buffer, off).value[2][1][1]>>
         \o NamesFrom(DecodeNext(buffer, off).offset, k - 1)

\* C7 as stated: whenever deserialize returns, the mapping has exactly N entries,
\* N the declared count, and its keys are in the order of the N top-level objects.
C7_ExactlyNInOrder ==
  pc = "returned" =>
    /\ Len(result.value[2]) = NumOf(value_cnt)
    /\ [k \in 1..Len(result.value[2]) |-> result.value[2][k][1]]
         = NamesFrom(FirstEntryOffset, Len(result.value[2]))

\* the log entries that report extra data
ExtraDataEntries == {k \in 1..Len(log) : log[k][2] = "bytes of extra data"}

\* C8: after the N top-level entries have decoded, bytes left in the buffer never
\* make deserialize fail: nothing is raised once the loop is over, the mapping
\* built is returned as it is, and the extra-data error, carrying the number of
\* bytes left, is logged exactly when that number is not zero.
C8_TrailingBytesTolerated ==
  /\ (pc = "raised" /\ result.at \in {"decode_next", "items", "duplicate"})
       => i < RangeLen(value_cnt).n
  /\ pc = "returned" =>
       /\ result.exc = ""
       /\ result.value = PyDict(value)
       /\ Len(value) = i
       /\ i >= RangeLen(value_cnt).n
       /\ IF RemainingLen(buffer, offset) # 0
          THEN /\ ExtraDataEntries = {Len(log)}
               /\ log[Len(log)][1] = "error"
               /\ log[Len(log)][3] = Len(buffer) - offset
          ELSE ExtraDataEntries = {}

\* one entry decoded and returned with a byte left after it
C8_Witness ==
  /\ pc = "returned"
  /\ Len(value) = 1
  /\ NumOf(value_cnt) = 1
  /\ RemainingLen(buffer, offset) = 1
  /\ Len(log) >= 1

\* the last two log entries are the failure offset and the partial mapping
FailureLogged ==
  /\ Len(log) >= 2
  /\ log[Len(log) - 1][1] = "info"
  /\ log[Len(log) - 1][2] = "KindleReaderDataStore decode failed at offset"
  /\ log[Len(log) - 1][3] = offset
  /\ log[Len(log)][1] = "info"
  /\ log[Len(log)][2] = "partial value"
  /\ log[Len(log)][3] = PyDict(value)

\* C9 as stated: every failure of deserialize is preceded by the log of the
\* offset and of the partial mapping, and returns no mapping.
C9_EveryFailureLogged ==
  pc = "raised" => (FailureLogged /\ result.value = PyNone)

\* C9, amended: every failure of deserialize ends it at once and returns no
\* mapping; the offset and the partial mapping are logged exactly when the
\* failure is raised by decode_next inside the loop over the top-level values.
C9_LoopFailureLogged ==
  /\ pc = "raised" =>
       /\ result.value = PyNone
       /\ result.exc # ""
       /\ FailureLogged <=> result.at = "decode_next"
  /\ pc # "raised" =>
       \A k \in 1..Len(log) :
         log[k][2] \notin {"KindleReaderDataStore decode failed at offset", "partial value"}

\* a second top-level value that is cut short, after one that decoded
C9_Witness ==
  /\ pc = "raised"
  /\ result.at = "decode_next"
  /\ Len(value) = 1
  /\ FailureLogged

-----------------------------------------------------------------------------
(* Properties of the Deserializer, checked under SpecCursor *)

\* the bytes the operation recorded in c asks for, the cursor being at off
Needed(c, off) ==
  IF c.size # PyNone THEN c.size[2]
  ELSE IF c.upto # PyNone THEN c.upto[2] - off
  ELSE Len(buffer) - off

\* C6: over any sequence of unpack and extract calls the offset never decreases
\* and stays within 0..len(buffer); a call that needs more bytes than remain, or
\* a negative number of bytes, fails and leaves the offset where it was; a call
\* with advance=False leaves the offset where it was; any other call succeeds
\* and moves the offset by the bytes it needed.
C6_OffsetMonotoneBounded ==
  /\ [](0 <= offset /\ offset <= Len(buffer))
  /\ [][/\ offset' >= offset
        /\ (Needed(call', offset) > Len(buffer) - offset \/ Needed(call', offset) < 0)
             <=> result'.exc # ""
        /\ result'.exc # "" => offset' = offset
        /\ ~call'.advance => offset' = offset
        /\ (result'.exc = "" /\ call'.advance) => offset' = offset + Needed(call', offset)
       ]_vars

\* an extract of -1 bytes failed after the cursor had moved
C6_Witness ==
  /\ call.fn = "extract"
  /\ call.size = PyInt(-1)
  /\ result.exc # ""
  /\ offset > 0
====
